---- MODULE Spec2Model ----
(***************************************************************************)
(* Model of the python-worker image service (src/app/routers/image.py and  *)
(* src/app/tasks/grid_overlay.py): the three stateless endpoints           *)
(* grid-overlay, resize and montage.  A state holds the last request, the  *)
(* image(s) behind its base64 payload, what the handler computed and what  *)
(* it answered.  Pixel contents are not modelled; sizes, pixel modes,      *)
(* formats, geometry and the error paths are.                              *)
(***************************************************************************)
EXTENDS Integers, Sequences, FiniteSets

VARIABLES
    endpoint,   \* the endpoint of the request being served, None when idle
    request,    \* the validated request body
    images,     \* the image(s) behind the base64 payload(s), in list order
    geometry,   \* what the handler computed (lines, target size, layout)
    encoded,    \* the image and format name handed to the encoder (save)
    response    \* the HTTP response

vars == <<endpoint, request, images, geometry, encoded, response>>

None == "None"

\* an Optional[int] field left out of the request; Python tests such a field
\* by truth value and validation keeps a given one >= 1
Absent == 0

(***************************************************************************)
(* Python floats.  `a / b` on ints is IEEE-754 binary64 division, `n * x`  *)
(* a binary64 product, both rounded to nearest, ties to even; int()        *)
(* truncates.  A 53-bit significand does not fit a TLC integer, so a       *)
(* significand is a little-endian sequence of limbs in base 2^15 and a     *)
(* float is [m |-> limbs, e |-> exponent] with value m * 2^e.  Only        *)
(* positive finite values occur.  Integer operands are below 2^13, so      *)
(* every intermediate limb product stays below 2^31.                       *)
(***************************************************************************)
LimbBits == 15

MantBits == 53

DivLimbs == 5

RECURSIVE Power2(_)
Power2(k) == IF k = 0 THEN 1 ELSE 2 * Power2(k - 1)

Pow2Table == [k \in 0..LimbBits |-> Power2(k)]

Pow2(k) == Pow2Table[k]

Base == Power2(LimbBits)

Limb(x, j) == IF j >= 1 /\ j <= Len(x) THEN x[j] ELSE 0

RECURSIVE TopBit(_)
TopBit(v) == IF v = 0 THEN 0 ELSE 1 + TopBit(v \div 2)

RECURSIVE BitLen(_)
BitLen(x) ==
    IF Len(x) = 0 THEN 0
    ELSE IF x[Len(x)] = 0 THEN BitLen(SubSeq(x, 1, Len(x) - 1))
    ELSE (Len(x) - 1) * LimbBits + TopBit(x[Len(x)])

Bit(x, i) == (Limb(x, (i \div LimbBits) + 1) \div Pow2(i % LimbBits)) % 2

\* some bit of x below position i is set
AnyBitBelow(x, i) ==
    \/ \E j \in 1..(i \div LimbBits) : Limb(x, j) # 0
    \/ Limb(x, (i \div LimbBits) + 1) % Pow2(i % LimbBits) # 0

ShiftRight(x, k) ==
    LET lk == k \div LimbBits
        b  == k % LimbBits
    IN  [j \in 1..Len(x) |->
            (Limb(x, j + lk) \div Pow2(b))
            + (Limb(x, j + lk + 1) % Pow2(b)) * Pow2(LimbBits - b)]

RECURSIVE AddSmall(_, _)
AddSmall(x, c) ==
    IF c = 0 THEN x
    ELSE IF Len(x) = 0 THEN <<c>>
    ELSE <<(x[1] + c) % Base>> \o AddSmall(Tail(x), (x[1] + c) \div Base)

RECURSIVE MulSmall(_, _, _)
MulSmall(x, n, carry) ==
    IF Len(x) = 0 THEN (IF carry = 0 THEN <<>> ELSE <<carry>>)
    ELSE <<(x[1] * n + carry) % Base>>
         \o MulSmall(Tail(x), n, (x[1] * n + carry) \div Base)

RECURSIVE ToInt(_)
ToInt(x) == IF Len(x) = 0 THEN 0 ELSE x[1] + Base * ToInt(Tail(x))

\* schoolbook division of a * Base^k by b: <<quotient limbs, remainder>>
RECURSIVE LongDiv(_, _, _)
LongDiv(r, b, k) ==
    IF k = 0 THEN <<<<>>, r>>
    ELSE LET rest == LongDiv((r * Base) % b, b, k - 1)
         IN  <<rest[1] \o <<(r * Base) \div b>>, rest[2]>>

\* (q + f) * 2^e with 0 <= f < 1 and sticky <=> f # 0, rounded to MantBits
\* bits, nearest, ties to even
RoundToDouble(q, sticky, e) ==
    LET len == BitLen(q)
        k   == len - MantBits
    IN  IF k <= 0 THEN [m |-> q, e |-> e]
        ELSE LET t     == ShiftRight(q, k)
                 guard == Bit(q, k - 1) = 1
                 low   == sticky \/ AnyBitBelow(q, k - 1)
                 up    == guard /\ (low \/ Bit(t, 0) = 1)
                 r     == IF up THEN AddSmall(t, 1) ELSE t
             IN  IF BitLen(r) > MantBits
                 THEN [m |-> ShiftRight(r, 1), e |-> e + k + 1]
                 ELSE [m |-> r, e |-> e + k]

\* a / b for ints 1 <= a, b < 2^13
FloatDiv(a, b) ==
    LET d == LongDiv(a % b, b, DivLimbs)
        q == d[1] \o <<a \div b>>
    IN  RoundToDouble(q, d[2] # 0, -(DivLimbs * LimbBits))

\* n * x for an int 1 <= n < 2^13
FloatMulInt(n, x) == RoundToDouble(MulSmall(x.m, n, 0), FALSE, x.e)

\* x < y for two quotients (both significands hold exactly MantBits bits)
RECURSIVE BigLess(_, _, _)
BigLess(x, y, j) ==
    IF j = 0 THEN FALSE
    ELSE IF Limb(x, j) # Limb(y, j) THEN Limb(x, j) < Limb(y, j)
    ELSE BigLess(x, y, j - 1)

FloatLess(x, y) ==
    \/ x.e < y.e
    \/ x.e = y.e /\ BigLess(x.m, y.m, IF Len(x.m) > Len(y.m) THEN Len(x.m) ELSE Len(y.m))

FloatMin(x, y) == IF FloatLess(y, x) THEN y ELSE x

\* int(x): truncation toward zero (the values here have e <= 0)
FloatToInt(x) == ToInt(ShiftRight(x.m, -x.e))

\* math.ceil(x)
FloatCeil(x) ==
    FloatToInt(x) + (IF AnyBitBelow(x.m, -x.e) THEN 1 ELSE 0)


(***************************************************************************)
(* Images, pixel modes and the encoder                                     *)
(***************************************************************************)
Modes == {"L", "LA", "P", "PA", "RGB", "RGBA"}

AlphaModes == {"LA", "PA", "RGBA"}

HasAlpha(mode) == mode \in AlphaModes

\* a payload that base64.b64decode / Image.open rejects
Undecodable == [ok |-> FALSE, w |-> 0, h |-> 0, mode |-> None]

Picture(w, h, mode) == [ok |-> TRUE, w |-> w, h |-> h, mode |-> mode]

Formats == {"png", "jpeg", "jpg"}

\* str.lower() on the values the pattern ^(png|jpeg|jpg)$ lets through
Lower(fmt) ==
    CASE fmt = "png" -> "png"
      [] fmt = "jpeg" -> "jpeg"
      [] fmt = "jpg" -> "jpg"

\* str.upper() on the same values
Upper(fmt) ==
    CASE fmt = "png" -> "PNG"
      [] fmt = "jpeg" -> "JPEG"
      [] fmt = "jpg" -> "JPG"

IsJpegName(fmt) == Lower(fmt) \in {"jpg", "jpeg"}

\* Image.save(buffer, format=name): the format names the imaging library
\* registers and the pixel modes each writer accepts
SaveOk(mode, name) ==
    \/ name = "PNG" /\ mode \in {"L", "LA", "P", "RGB", "RGBA"}
    \/ name = "JPEG" /\ mode \in {"L", "RGB"}

NoGeometry == [kind |-> None]

NotEncoded == [mode |-> None, format |-> None]

NoResponse == [status |-> 0]

HttpError(detail) == [status |-> 400, detail |-> detail]

(***************************************************************************)
(* Validation limits of the request models                                 *)
(***************************************************************************)
MinGridSize == 2

MaxGridSize == 26

DefaultGridSize == 9

MinMargin == 5

MaxMargin == 50

DefaultMargin == 15

MinImages == 2

MaxImages == 25

MaxColumns == 10

DefaultSpacing == 10

MinCellWidth == 50

LabelBand == 25

DefaultQuality == 85

(***************************************************************************)
(* grid_overlay.py: add_reference_grid and process_base64                  *)
(***************************************************************************)
\* the i-th grid line along an axis of the given extent (i = 0..grid_size)
MutOffsetByCellWidth(margin, extent, i, grid_size) ==
    margin + (extent \div grid_size) * i

MutOffsetRemainderLast(margin, extent, i, grid_size) ==
    IF i = grid_size THEN margin + extent
    ELSE margin + (extent \div grid_size) * i

LineOffset(margin, extent, i, grid_size) ==
    margin + ((extent * i) \div grid_size)

GridLines(margin, extent, grid_size) ==
    [j \in 1..(grid_size + 1) |-> LineOffset(margin, extent, j - 1, grid_size)]

CellCenter(margin, extent, i, grid_size) ==
    margin + ((extent * i) \div grid_size) + ((extent \div grid_size) \div 2)

CellCenters(margin, extent, grid_size) ==
    [j \in 1..grid_size |-> CellCenter(margin, extent, j - 1, grid_size)]

add_reference_grid(img, grid_size, margin) ==
    [kind |-> "grid",
     new_w |-> img.w + margin * 2,
     new_h |-> img.h + margin * 2,
     mode |-> "RGBA",
     vlines |-> GridLines(margin, img.w, grid_size),
     hlines |-> GridLines(margin, img.h, grid_size),
     col_centers |-> CellCenters(margin, img.w, grid_size),
     row_centers |-> CellCenters(margin, img.h, grid_size)]

\* [raised, geometry, encoded]: raised when decoding or saving throws
process_base64(img, grid_size, margin, output_format) ==
    IF ~img.ok THEN [raised |-> TRUE, geometry |-> NoGeometry, encoded |-> NotEncoded]
    ELSE LET result == add_reference_grid(img, grid_size, margin)
             mode   == IF IsJpegName(output_format) THEN "RGB" ELSE result.mode
             name   == Upper(output_format)
         IN  [raised |-> ~SaveOk(mode, name),
              geometry |-> result,
              encoded |-> [mode |-> mode, format |-> name]]

grid_overlay(req, img) ==
    LET out == process_base64(img, req.grid_size, req.margin, req.output_format)
    IN  /\ endpoint' = "grid-overlay"
        /\ request' = req
        /\ images' = <<img>>
        /\ geometry' = out.geometry
        /\ encoded' = out.encoded
        /\ response' =
             IF out.raised THEN HttpError("Image processing failed")
             ELSE [status |-> 200,
                   width |-> out.geometry.new_w,
                   height |-> out.geometry.new_h,
                   prompt |-> req.include_prompt]

(***************************************************************************)
(* image.py: resize_image                                                  *)
(***************************************************************************)
MutRatioMax(x, y) == IF FloatLess(y, x) THEN x ELSE y

FitRatio(x, y) == FloatMin(x, y)

\* lines 97-117: [given, new_w, new_h]; given is FALSE in the final else
TargetSize(req, orig_w, orig_h) ==
    IF req.max_dimension # Absent
    THEN LET ratio == FitRatio(FloatDiv(req.max_dimension, orig_w),
                               FloatDiv(req.max_dimension, orig_h))
         IN  [given |-> TRUE,
              new_w |-> FloatToInt(FloatMulInt(orig_w, ratio)),
              new_h |-> FloatToInt(FloatMulInt(orig_h, ratio))]
    ELSE IF req.width # Absent /\ req.height # Absent
    THEN [given |-> TRUE, new_w |-> req.width, new_h |-> req.height]
    ELSE IF req.width # Absent
    THEN LET ratio == FloatDiv(req.width, orig_w)
         IN  [given |-> TRUE,
              new_w |-> req.width,
              new_h |-> FloatToInt(FloatMulInt(orig_h, ratio))]
    ELSE IF req.height # Absent
    THEN LET ratio == FloatDiv(req.height, orig_h)
         IN  [given |-> TRUE,
              new_w |-> FloatToInt(FloatMulInt(orig_w, ratio)),
              new_h |-> req.height]
    ELSE [given |-> FALSE, new_w |-> 0, new_h |-> 0]

\* Image.resize refuses an empty target size
ResizeOk(new_w, new_h) == new_w >= 1 /\ new_h >= 1

\* lines 122-125: the mode after the JPEG conversion
ResizeSaveMode(mode, output_format) ==
    IF IsJpegName(output_format) /\ mode \in {"RGBA", "P"} THEN "RGB" ELSE mode

\* the except clauses, lines 140-143: an HTTPException raised in the body
\* is re-raised as it is, anything else becomes "Resize failed"
MutResizeRewrap(detail) == "Resize failed"

ResizeHttpPassThrough(detail) == detail

resize_image(req, img) ==
    /\ endpoint' = "resize"
    /\ request' = req
    /\ images' = <<img>>
    /\ IF ~img.ok
       THEN /\ geometry' = NoGeometry
            /\ encoded' = NotEncoded
            /\ response' = HttpError("Resize failed")
       ELSE LET t    == TargetSize(req, img.w, img.h)
                mode == ResizeSaveMode(img.mode, req.output_format)
                name == Upper(req.output_format)
            IN  IF ~t.given
                THEN /\ geometry' = NoGeometry
                     /\ encoded' = NotEncoded
                     /\ response' = HttpError(ResizeHttpPassThrough(
                            "Must provide width, height, or max_dimension"))
                ELSE /\ geometry' = [kind |-> "resize", new_w |-> t.new_w, new_h |-> t.new_h]
                     /\ IF ~ResizeOk(t.new_w, t.new_h)
                        THEN /\ encoded' = NotEncoded
                             /\ response' = HttpError("Resize failed")
                        ELSE /\ encoded' = [mode |-> mode, format |-> name]
                             /\ response' =
                                  IF SaveOk(mode, name)
                                  THEN [status |-> 200, width |-> t.new_w, height |-> t.new_h]
                                  ELSE HttpError("Resize failed")

(***************************************************************************)
(* image.py: create_montage                                                *)
(***************************************************************************)
Digits == <<"0", "1", "2", "3", "4", "5", "6", "7", "8", "9">>

\* str(n) for n >= 0
RECURSIVE IntToStr(_)
IntToStr(n) ==
    IF n < 10 THEN Digits[n + 1]
    ELSE IntToStr(n \div 10) \o Digits[(n % 10) + 1]

\* lines 185-193: the 0-based index at which the decode loop raises, -1 when
\* every image decodes
RECURSIVE MutLastDecodeFailure(_, _)
MutLastDecodeFailure(imgs, i) ==
    IF i > Len(imgs) THEN -1
    ELSE LET later == MutLastDecodeFailure(imgs, i + 1)
         IN  IF later >= 0 THEN later
             ELSE IF ~imgs[i].ok THEN i - 1 ELSE -1

RECURSIVE DecodeFailure(_, _)
DecodeFailure(imgs, i) ==
    IF i > Len(imgs) THEN -1
    ELSE IF ~imgs[i].ok THEN i - 1
    ELSE DecodeFailure(imgs, i + 1)

\* math.ceil(math.sqrt(n)): sqrt is correctly rounded, so it is exact on a
\* perfect square and stays strictly between two integers otherwise
RECURSIVE CeilSqrtFrom(_, _)
CeilSqrtFrom(n, k) == IF k * k >= n THEN k ELSE CeilSqrtFrom(n, k + 1)

CeilSqrt(n) == CeilSqrtFrom(n, 0)

\* lines 196-202
GridColumns(n, columns) ==
    IF columns # Absent THEN columns ELSE CeilSqrt(n)

MutRowsFloor(n, cols) == FloatToInt(FloatDiv(n, cols))

GridRows(n, cols) == FloatCeil(FloatDiv(n, cols))

\* line 288
GridString(cols, rows) == IntToStr(cols) \o "x" \o IntToStr(rows)

RECURSIVE MaxOf(_, _)
MaxOf(f, n) ==
    IF n = 1 THEN f[1]
    ELSE LET m == MaxOf(f, n - 1) IN IF f[n] > m THEN f[n] ELSE m

\* lines 205-218: [max_w, max_h, sizes]; the sizes are those of the images
\* as pasted
ScaleToCellWidth(imgs, max_cell_width) ==
    LET n     == Len(imgs)
        max_w == MaxOf([i \in 1..n |-> imgs[i].w], n)
        max_h == MaxOf([i \in 1..n |-> imgs[i].h], n)
    IN  IF max_cell_width # Absent /\ max_w > max_cell_width
        THEN LET scale == FloatDiv(max_cell_width, max_w)
             IN  [max_w |-> max_cell_width,
                  max_h |-> FloatToInt(FloatMulInt(max_h, scale)),
                  sizes |-> [i \in 1..n |->
                      [w |-> FloatToInt(FloatMulInt(imgs[i].w, scale)),
                       h |-> FloatToInt(FloatMulInt(imgs[i].h, scale))]]]
        ELSE [max_w |-> max_w,
              max_h |-> max_h,
              sizes |-> [i \in 1..n |-> [w |-> imgs[i].w, h |-> imgs[i].h]]]

\* lines 230-231: lstrip('#'), then int(.., 16) of the slices [0:2], [2:4],
\* [4:6]; a colour is a sequence of characters
HexDigits ==
    {"0", "1", "2", "3", "4", "5", "6", "7", "8", "9",
     "a", "b", "c", "d", "e", "f", "A", "B", "C", "D", "E", "F"}

RECURSIVE LStripHash(_)
LStripHash(c) ==
    IF Len(c) > 0 /\ c[1] = "#" THEN LStripHash(Tail(c)) ELSE c

ColorParses(color) ==
    LET c == LStripHash(color)
    IN  \A k \in {0, 2, 4} :
            /\ Len(c) > k
            /\ \A j \in (k + 1)..(IF Len(c) < k + 2 THEN Len(c) ELSE k + 2) :
                   c[j] \in HexDigits

\* lines 246-255: the cell and the paste position of the image at 0-based
\* index i
MutCellSwapped(i, cols) == [row |-> i % cols, col |-> i \div cols]

CellOf(i, cols) == [row |-> i \div cols, col |-> i % cols]

\* centres the image in the cell pitch instead of the image area
MutPlacementCentredInPitch(i, size, req, cols, max_w, cell_w, cell_h, label_height) ==
    LET cell == CellOf(i, cols)
        x    == cell.col * cell_w + req.spacing + ((cell_w - size.w) \div 2)
        y0   == cell.row * cell_h + req.spacing
        y    == IF req.label_position = "top" /\ Len(req.labels) > 0
                THEN y0 + label_height ELSE y0
    IN  [row |-> cell.row, col |-> cell.col, x |-> x, y |-> y,
         w |-> size.w, h |-> size.h,
         labelled |-> Len(req.labels) > 0 /\ i < Len(req.labels),
         label_x |-> cell.col * cell_w + req.spacing + (max_w \div 2),
         label_y |-> IF req.label_position = "bottom" THEN y + size.h + 5
                     ELSE cell.row * cell_h + req.spacing + 5]

Placement(i, size, req, cols, max_w, cell_w, cell_h, label_height) ==
    LET cell == CellOf(i, cols)
        x    == cell.col * cell_w + req.spacing + ((max_w - size.w) \div 2)
        y0   == cell.row * cell_h + req.spacing
        y    == IF req.label_position = "top" /\ Len(req.labels) > 0
                THEN y0 + label_height ELSE y0
    IN  [row |-> cell.row, col |-> cell.col, x |-> x, y |-> y,
         w |-> size.w, h |-> size.h,
         labelled |-> Len(req.labels) > 0 /\ i < Len(req.labels),
         label_x |-> cell.col * cell_w + req.spacing + (max_w \div 2),
         label_y |-> IF req.label_position = "bottom" THEN y + size.h + 5
                     ELSE cell.row * cell_h + req.spacing + 5]

\* lines 196-261, once every image has decoded
MontageLayout(req, imgs) ==
    LET n            == Len(imgs)
        cols         == GridColumns(n, req.columns)
        rows         == GridRows(n, cols)
        s            == ScaleToCellWidth(imgs, req.max_cell_width)
        label_height == IF Len(req.labels) > 0 THEN LabelBand ELSE 0
        cell_w       == s.max_w + req.spacing
        cell_h       == s.max_h + req.spacing + label_height
    IN  [kind |-> "montage",
         n |-> n, cols |-> cols, rows |-> rows,
         max_w |-> s.max_w, max_h |-> s.max_h,
         label_height |-> label_height,
         cell_w |-> cell_w, cell_h |-> cell_h,
         canvas_w |-> cols * cell_w + req.spacing,
         canvas_h |-> rows * cell_h + req.spacing,
         resized |-> \A i \in 1..n : ResizeOk(s.sizes[i].w, s.sizes[i].h),
         cells |-> [i \in 1..n |->
             Placement(i - 1, s.sizes[i], req, cols, s.max_w,
                       cell_w, cell_h, label_height)]]

\* line 279
MontageSaveFormat(output_format) ==
    IF IsJpegName(output_format) THEN "JPEG" ELSE "PNG"

\* the except clauses, lines 291-294
MontageHttpPassThrough(detail) == detail

create_montage(req, imgs) ==
    /\ endpoint' = "montage"
    /\ request' = req
    /\ images' = imgs
    /\ LET bad == DecodeFailure(imgs, 1)
       IN  IF bad >= 0
           THEN /\ geometry' = NoGeometry
                /\ encoded' = NotEncoded
                /\ response' = HttpError(MontageHttpPassThrough(
                       "Failed to decode image " \o IntToStr(bad)))
           ELSE LET g    == MontageLayout(req, imgs)
                    name == MontageSaveFormat(req.output_format)
                IN  /\ geometry' = g
                    /\ IF ~g.resized \/ ~ColorParses(req.background_color)
                       THEN /\ encoded' = NotEncoded
                            /\ response' = HttpError("Montage creation failed")
                       ELSE /\ encoded' = [mode |-> "RGB", format |-> name]
                            /\ response' =
                                 IF SaveOk("RGB", name)
                                 THEN [status |-> 200,
                                       width |-> g.canvas_w,
                                       height |-> g.canvas_h,
                                       grid |-> GridString(g.cols, g.rows)]
                                 ELSE HttpError("Montage creation failed")

(***************************************************************************)
(* The service: a handler runs on a request that arrives while the worker *)
(* is idle (endpoint = None, the guard of every handler step in the        *)
(* next-state relations below); the response is sent and nothing is kept.  *)
(***************************************************************************)
Init ==
    /\ endpoint = None
    /\ request = [none |-> TRUE]
    /\ images = <<>>
    /\ geometry = NoGeometry
    /\ encoded = NotEncoded
    /\ response = NoResponse

send_response ==
    /\ endpoint # None
    /\ endpoint' = None
    /\ request' = [none |-> TRUE]
    /\ images' = <<>>
    /\ geometry' = NoGeometry
    /\ encoded' = NotEncoded
    /\ response' = NoResponse

(***************************************************************************)
(* Requests.  alpha (the opacity of the grid lines) and the label texts    *)
(* only decide pixel contents and are left out; labels: None is the empty  *)
(* list, which the handler cannot tell apart (both are false).             *)
(***************************************************************************)
White == <<"#", "F", "F", "F", "F", "F", "F">>

NotAColor == <<"r", "e", "d">>

\* the whole service on small pictures of every pixel mode
MaxPixels == 2

MaxServiceImages == 2

ServicePictures ==
    {Undecodable} \cup
    {Picture(w, h, m) : w \in 1..MaxPixels, h \in 1..MaxPixels, m \in Modes}

ServiceGridRequests ==
    [grid_size : {MinGridSize, DefaultGridSize, MaxGridSize},
     margin : {MinMargin, DefaultMargin, MaxMargin},
     output_format : Formats,
     include_prompt : BOOLEAN]

ServiceResizeRequests ==
    [width : Absent..MaxPixels,
     height : Absent..MaxPixels,
     max_dimension : Absent..MaxPixels,
     output_format : Formats,
     quality : {DefaultQuality}]

ServiceTiles ==
    {Undecodable} \cup {Picture(MaxPixels, MaxPixels, m) : m \in Modes}

ServiceMontageImages ==
    UNION {[1..n -> ServiceTiles] : n \in MinImages..MaxServiceImages}

ServiceMontageRequests ==
    [columns : {Absent},
     spacing : {DefaultSpacing},
     background_color : {White, NotAColor},
     labels : {<<>>, <<"a">>},
     label_position : {"top", "bottom"},
     max_cell_width : {Absent},
     output_format : Formats]

Next ==
    \/ /\ endpoint = None
       /\ \E req \in ServiceGridRequests, img \in ServicePictures :
              grid_overlay(req, img)
    \/ /\ endpoint = None
       /\ \E req \in ServiceResizeRequests, img \in ServicePictures :
              resize_image(req, img)
    \/ /\ endpoint = None
       /\ \E req \in ServiceMontageRequests, imgs \in ServiceMontageImages :
              create_montage(req, imgs)
    \/ send_response

Spec == Init /\ [][Next]_vars

\* grid-overlay on every grid size and margin
MaxExtent == 8

GridPictures ==
    {Picture(w, h, "RGB") : w \in 1..MaxExtent, h \in 1..MaxExtent}

GridGeometryRequests ==
    [grid_size : MinGridSize..MaxGridSize,
     margin : MinMargin..MaxMargin,
     output_format : {"png"},
     include_prompt : {FALSE}]

NextGrid ==
    \/ /\ endpoint = None
       /\ \E req \in GridGeometryRequests, img \in GridPictures :
              grid_overlay(req, img)
    \/ send_response

SpecGrid == Init /\ [][NextGrid]_vars

\* resize on every option set; a field that max_dimension overrides takes
\* few values
MaxSide == 11

MaxTarget == 15

MaxOverridden == 1

ResizePictures ==
    {Undecodable} \cup
    {Picture(w, h, "RGB") : w \in 1..MaxSide, h \in 1..MaxSide}

ResizeGeometryRequests ==
    {r \in [width : Absent..MaxTarget,
            height : Absent..MaxTarget,
            max_dimension : Absent..MaxTarget,
            output_format : {"png"},
            quality : {DefaultQuality}] :
        \/ r.max_dimension = Absent
        \/ r.width <= MaxOverridden /\ r.height <= MaxOverridden}

NextResize ==
    \/ /\ endpoint = None
       /\ \E req \in ResizeGeometryRequests, img \in ResizePictures :
              resize_image(req, img)
    \/ send_response

SpecResize == Init /\ [][NextResize]_vars

\* montage on every image count and column count; up to two payloads of a
\* list are undecodable
MaxTile == 1

BadPositions(n) == {{}} \cup {{i, j} : i \in 1..n, j \in 1..n}

TileList(n, bad, t) ==
    [i \in 1..n |-> IF i \in bad THEN Undecodable ELSE Picture(t, t, "RGB")]

TileLists ==
    UNION {{TileList(n, bad, t) : bad \in BadPositions(n), t \in 1..MaxTile} :
              n \in MinImages..MaxImages}

ShapeMontageRequests ==
    [columns : Absent..MaxColumns,
     spacing : {DefaultSpacing},
     background_color : {White},
     labels : {<<>>},
     label_position : {"bottom"},
     max_cell_width : {Absent},
     output_format : {"png"}]

NextMontage ==
    \/ /\ endpoint = None
       /\ \E req \in ShapeMontageRequests, imgs \in TileLists :
              create_montage(req, imgs)
    \/ send_response

SpecMontage == Init /\ [][NextMontage]_vars

\* montage layout on a few pictures of unlike sizes: a side is one pixel, a
\* few pixels or more than the smallest max_cell_width, so that the pictures
\* are centred in wider cells and scaled down when max_cell_width is given
LayoutSmall == 3

LayoutLarge == 120

LayoutPictures ==
    {Picture(w, h, "RGBA") :
        w \in {LayoutSmall, LayoutLarge}, h \in {1, LayoutSmall, LayoutLarge}}

LayoutImages ==
    UNION {[1..n -> LayoutPictures] : n \in MinImages..(MinImages + 1)}

LayoutMontageRequests ==
    [columns : Absent..MinImages,
     spacing : {0, DefaultSpacing},
     background_color : {White},
     labels : {<<>>, <<"a">>},
     label_position : {"top", "bottom"},
     max_cell_width : {Absent, MinCellWidth},
     output_format : {"png"}]

NextLayout ==
    \/ /\ endpoint = None
       /\ \E req \in LayoutMontageRequests, imgs \in LayoutImages :
              create_montage(req, imgs)
    \/ send_response

SpecLayout == Init /\ [][NextLayout]_vars

(***************************************************************************)
(* Properties                                                              *)
(***************************************************************************)
GridDone == endpoint = "grid-overlay" /\ geometry.kind = "grid"

ResizeCall == endpoint = "resize" /\ images[1].ok

AnyDimensionGiven(req) ==
    req.width # Absent \/ req.height # Absent \/ req.max_dimension # Absent

MontageDone == endpoint = "montage" /\ geometry.kind = "montage"

\* decimal numerals written out, for 0..25
Numeral ==
    <<"0", "1", "2", "3", "4", "5", "6", "7", "8", "9", "10", "11", "12",
      "13", "14", "15", "16", "17", "18", "19", "20", "21", "22", "23",
      "24", "25">>

LinesWellFormed(lines, margin, extent, grid_size) ==
    /\ Len(lines) = grid_size + 1
    /\ lines[1] = margin
    /\ lines[grid_size + 1] = margin + extent
    /\ \A j \in 1..grid_size : lines[j] <= lines[j + 1]

\* C1: the vertical and the horizontal grid line offsets of add_reference_grid
\* are grid_size+1 entries, non-decreasing, the first at margin and the last at
\* margin + extent, for every extent, grid size 2..26 and margin 5..50.
C1_GridLinesSpanImage ==
    GridDone =>
        /\ LinesWellFormed(geometry.vlines, request.margin, images[1].w,
                           request.grid_size)
        /\ LinesWellFormed(geometry.hlines, request.margin, images[1].h,
                           request.grid_size)

\* more divisions than pixels, so some lines coincide, at the largest margin
C1_Witness ==
    /\ GridDone
    /\ request.grid_size = MaxGridSize
    /\ request.margin = MaxMargin
    /\ images[1].w = MaxExtent
    /\ \E j \in 1..MaxGridSize : geometry.vlines[j] = geometry.vlines[j + 1]
    /\ geometry.vlines[MaxGridSize + 1] = MaxMargin + MaxExtent

\* the reference calculator of the resize target, in exact integer arithmetic
ReferenceTarget(req, w, h) ==
    IF req.max_dimension # Absent
    THEN LET longer == IF w > h THEN w ELSE h
         IN  <<(w * req.max_dimension) \div longer,
               (h * req.max_dimension) \div longer>>
    ELSE IF req.width # Absent /\ req.height # Absent
    THEN <<req.width, req.height>>
    ELSE IF req.width # Absent
    THEN <<req.width, (h * req.width) \div w>>
    ELSE <<(w * req.height) \div h, req.height>>

\* C2: the target size of resize_image is the reference calculator's, with
\* precedence max_dimension > width and height > width only > height only and
\* each scaled side the floor of the exact quotient.
C2_TargetIsReference ==
    (ResizeCall /\ AnyDimensionGiven(request)) =>
        /\ geometry.kind = "resize"
        /\ <<geometry.new_w, geometry.new_h>>
               = ReferenceTarget(request, images[1].w, images[1].h)

Longer(a, b) == IF a > b THEN a ELSE b

\* C3: with max_dimension set, neither side of the target exceeds
\* max_dimension and the longer side is max_dimension or one pixel less.
C3_FitsMaxDimension ==
    (ResizeCall /\ request.max_dimension # Absent) =>
        /\ geometry.kind = "resize"
        /\ geometry.new_w <= request.max_dimension
        /\ geometry.new_h <= request.max_dimension
        /\ Longer(geometry.new_w, geometry.new_h)
               \in {request.max_dimension - 1, request.max_dimension}

\* an upscale whose longer side lands one pixel short of max_dimension
C3_Witness ==
    /\ ResizeCall
    /\ request.max_dimension # Absent
    /\ request.max_dimension > Longer(images[1].w, images[1].h)
    /\ Longer(geometry.new_w, geometry.new_h) = request.max_dimension - 1

MustProvide == HttpError("Must provide width, height, or max_dimension")

\* C4 as stated: every resize request with none of width, height and
\* max_dimension set is answered 400 'Must provide width, height, or
\* max_dimension', unchanged, with no image and no dimensions.
C4_NoDimensionAlwaysMustProvide ==
    (endpoint = "resize" /\ ~AnyDimensionGiven(request)) =>
        /\ response = MustProvide
        /\ geometry = NoGeometry
        /\ encoded = NotEncoded

\* C4, amended: a resize request with none of width, height and max_dimension
\* set whose image decodes is answered 400 'Must provide width, height, or
\* max_dimension', passed through unchanged, with no target size computed and
\* nothing encoded; when the image does not decode the answer is the 400
\* 'Resize failed' of the decode error, which comes first.
C4_NoDimensionMustProvide ==
    (endpoint = "resize" /\ ~AnyDimensionGiven(request)) =>
        /\ response = (IF images[1].ok THEN MustProvide
                       ELSE HttpError("Resize failed"))
        /\ geometry = NoGeometry
        /\ encoded = NotEncoded

C4_Witness ==
    /\ ResizeCall
    /\ ~AnyDimensionGiven(request)
    /\ response = MustProvide

\* C5: in create_montage the column count is the requested one, or
\* ceil(sqrt(n)) when none is requested, the row count is ceil(n / columns),
\* columns * rows >= n and the grid string is 'columns x rows'; 7 images give
\* 3x3, and 4x2 with columns = 4.
C5_GridShape ==
    MontageDone =>
        LET n    == Len(images)
            cols == geometry.cols
            rows == geometry.rows
        IN  /\ request.columns # Absent => cols = request.columns
            /\ request.columns = Absent =>
                   cols * cols >= n /\ (cols - 1) * (cols - 1) < n
            /\ rows * cols >= n
            /\ (rows - 1) * cols < n
            /\ response.status = 200
            /\ response.grid = Numeral[cols + 1] \o "x" \o Numeral[rows + 1]
            /\ (n = 7 /\ request.columns = Absent) => response.grid = "3x3"
            /\ (n = 7 /\ request.columns = 4) => response.grid = "4x2"

C5_Witness ==
    /\ MontageDone
    /\ Len(images) = 7
    /\ request.columns = Absent
    /\ response.grid = "3x3"

\* C6: every image index i of a montage gets the cell (i // columns,
\* i % columns), inside the rows x columns grid, and no two indices share a
\* cell.
C6_OneCellPerImage ==
    MontageDone =>
        LET n     == Len(images)
            cells == geometry.cells
        IN  /\ Len(cells) = n
            /\ \A i \in 1..n :
                   /\ cells[i].row = (i - 1) \div geometry.cols
                   /\ cells[i].col = (i - 1) % geometry.cols
                   /\ 0 <= cells[i].row /\ cells[i].row < geometry.rows
                   /\ 0 <= cells[i].col /\ cells[i].col < geometry.cols
            /\ \A i, j \in 1..n :
                   i # j => <<cells[i].row, cells[i].col>>
                                # <<cells[j].row, cells[j].col>>

\* a full last row and a grid with several rows and columns
C6_Witness ==
    /\ MontageDone
    /\ Len(images) = MaxImages
    /\ geometry.cols = 5
    /\ geometry.cells[MaxImages].row = 4
    /\ geometry.cells[MaxImages].col = 4

\* C7: whichever endpoint, when the requested output format is JPEG the image
\* handed to the encoder has no alpha channel.
C7_JpegHasNoAlpha ==
    (endpoint # None /\ IsJpegName(request.output_format)
        /\ encoded.mode # None) => ~HasAlpha(encoded.mode)

Undecoded == {i \in 1..Len(images) : ~images[i].ok}

\* C8: a montage request with an undecodable image is answered 400 with a
\* message naming the 0-based index of the first undecodable image, passed
\* through unchanged, and no montage, size or grid string.
C8_DecodeErrorNamesFirstIndex ==
    (endpoint = "montage" /\ Undecoded # {}) =>
        \* first is a position of the 1-based sequence: Numeral[first] is the
        \* numeral of the 0-based index first - 1
        LET first == CHOOSE i \in Undecoded : \A j \in Undecoded : i <= j
        IN  /\ response = HttpError("Failed to decode image " \o Numeral[first])
            /\ geometry = NoGeometry
            /\ encoded = NotEncoded

\* two undecodable images, neither of them the first of the list
C8_Witness ==
    /\ endpoint = "montage"
    /\ Cardinality(Undecoded) = 2
    /\ 1 \notin Undecoded
    /\ response.status = 400

CellWidths(lines, grid_size) ==
    [j \in 1..grid_size |-> lines[j + 1] - lines[j]]

EvenCover(lines, margin, extent, grid_size) ==
    LET width == CellWidths(lines, grid_size)
    IN  /\ lines[1] - margin = 0
        /\ lines[grid_size + 1] - margin = extent
        /\ \A j \in 1..grid_size : width[j] >= 0
        /\ \A a, b \in {width[j] : j \in 1..grid_size} : a - b <= 1

\* C9: along each axis the cells between consecutive grid lines cover
\* [0, extent] without gap or overlap and any two cell widths differ by at
\* most one pixel.
C9_CellsCoverEvenly ==
    GridDone =>
        /\ EvenCover(geometry.vlines, request.margin, images[1].w,
                     request.grid_size)
        /\ EvenCover(geometry.hlines, request.margin, images[1].h,
                     request.grid_size)

\* an extent the grid size does not divide: cells of two widths, none empty
C9_Witness ==
    /\ GridDone
    /\ LET width == CellWidths(geometry.vlines, request.grid_size)
       IN  /\ \A j \in 1..request.grid_size : width[j] >= 1
           /\ \E j, k \in 1..request.grid_size : width[j] = width[k] + 1

\* C10: a resize request that sets a dimension, on a decodable image, gets a
\* target of at least 1x1 and is answered with an image.
C10_TargetNotEmpty ==
    (ResizeCall /\ AnyDimensionGiven(request)) =>
        /\ geometry.kind = "resize"
        /\ geometry.new_w >= 1
        /\ geometry.new_h >= 1
        /\ response.status = 200

\* C12: for every accepted output_format (png, jpeg, jpg) the format name an
\* endpoint hands the encoder is one the encoder supports, 'PNG' or 'JPEG',
\* and 'jpg' is encoded as JPEG like 'jpeg' in all three endpoints.
C12_EncoderFormatSupported ==
    (endpoint # None /\ encoded.format # None) =>
        /\ encoded.format \in {"PNG", "JPEG"}
        /\ IsJpegName(request.output_format) => encoded.format = "JPEG"

\* the montage was composed: every image was pasted on the canvas
MontagePasted == MontageDone /\ response.status = 200

\* the pixel columns and rows a rectangle covers are [x, x + w) and [y, y + h)
Inside(r, left, top, right, bottom) ==
    /\ left <= r.x /\ r.x + r.w <= right
    /\ top <= r.y /\ r.y + r.h <= bottom

Disjoint(r, q) ==
    \/ r.x + r.w <= q.x
    \/ q.x + q.w <= r.x
    \/ r.y + r.h <= q.y
    \/ q.y + q.h <= r.y

\* C11: every pasted image rectangle (after any downscaling to
\* max_cell_width) lies inside the canvas of size
\* (columns*(cell_w+spacing)+spacing, rows*(cell_h+spacing+label_band)+spacing),
\* inside the cell of its index, and overlaps no other image's rectangle;
\* cell_w and cell_h are the largest width and height of the pasted images'
\* bound (max_w, max_h).
C11_ImagesInsideCells ==
    MontagePasted =>
        LET g     == geometry
            sp    == request.spacing
            band  == IF Len(request.labels) > 0 THEN LabelBand ELSE 0
            pw    == g.max_w + sp
            ph    == g.max_h + sp + band
            cells == g.cells
        IN  /\ g.canvas_w = g.cols * pw + sp
            /\ g.canvas_h = g.rows * ph + sp
            /\ \A i \in 1..g.n :
                   /\ cells[i].w >= 1 /\ cells[i].h >= 1
                   /\ Inside(cells[i], 0, 0, g.canvas_w, g.canvas_h)
                   /\ Inside(cells[i],
                             cells[i].col * pw + sp,
                             cells[i].row * ph + sp,
                             cells[i].col * pw + sp + g.max_w,
                             cells[i].row * ph + sp + g.max_h + band)
            /\ \A i, j \in 1..g.n : i # j => Disjoint(cells[i], cells[j])

\* pictures of unlike widths scaled down to max_cell_width, with a label band
\* on top and no spacing, in two rows
C11_Witness ==
    /\ MontagePasted
    /\ request.max_cell_width = MinCellWidth
    /\ geometry.max_w = MinCellWidth
    /\ request.spacing = 0
    /\ Len(request.labels) > 0 /\ request.label_position = "top"
    /\ geometry.rows > 1
    /\ \E i, j \in 1..geometry.n : geometry.cells[i].w < geometry.cells[j].w
    /\ \E i \in 1..geometry.n : geometry.cells[i].w < images[i].w
====
